---- MODULE Spec2Model ----
(***************************************************************************)
(* Model of the NH representative finder (backend/loader.py and            *)
(* backend/app.py): district-key normalisation, dataset loading, and the   *)
(* /lookup resolution of a point to its representatives.                   *)
(*                                                                         *)
(* Python strings are modelled as sequences of one-character strings, so   *)
(* that strip / upper / replace / re.sub / re.fullmatch are computed and   *)
(* not assumed.  None and the float NaN (a blank pandas cell) are the two  *)
(* marker values None and NaN.                                             *)
(***************************************************************************)
EXTENDS Integers, Sequences, FiniteSets, TLC

\* ------------------------------------------------------------------------
\* Python values
\* ------------------------------------------------------------------------
None == <<"None">>
NaN == <<"NaN">>

LowerAlpha ==
  <<"a","b","c","d","e","f","g","h","i","j","k","l","m",
    "n","o","p","q","r","s","t","u","v","w","x","y","z">>
UpperAlpha ==
  <<"A","B","C","D","E","F","G","H","I","J","K","L","M",
    "N","O","P","Q","R","S","T","U","V","W","X","Y","Z">>
DigitChars == <<"0","1","2","3","4","5","6","7","8","9">>

\* The characters the datasets use, in code-point order (str comparison).
\* "~" stands for the em dash U+2014 of NOVOTE_TOKENS (the module is ASCII).
CodePoints ==
  <<"\t"," ","'","-","/">> \o DigitChars \o <<"<",">">> \o UpperAlpha
    \o <<"_">> \o LowerAlpha \o <<"|","~">>

LowerSet == {LowerAlpha[i] : i \in 1..26}
UpperSet == {UpperAlpha[i] : i \in 1..26}
DigitSet == {DigitChars[i] : i \in 1..10}
IsLower(c) == c \in LowerSet
IsUpper(c) == c \in UpperSet
IsAlpha(c) == IsLower(c) \/ IsUpper(c)
IsDigit(c) == c \in DigitSet
WS == {" ", "\t"}

\* ord(c), as the position of c in CodePoints
OrdTable == [c \in {CodePoints[i] : i \in DOMAIN CodePoints} |->
               CHOOSE i \in DOMAIN CodePoints : CodePoints[i] = c]
ord(c) == OrdTable[c]

\* bool(x) of an optional string cell: None and "" are falsy, NaN is truthy.
truthy(x) == x # None /\ x # <<>>

\* str(x) of a cell: str(nan) is "nan", str(None) is "None".
str(x) ==
  IF x = NaN THEN <<"n","a","n">>
  ELSE IF x = None THEN <<"N","o","n","e">>
  ELSE x

ToUpper == [c \in LowerSet |-> UpperAlpha[CHOOSE i \in 1..26 : LowerAlpha[i] = c]]
ToLower == [c \in UpperSet |-> LowerAlpha[CHOOSE i \in 1..26 : UpperAlpha[i] = c]]
DigitValue == [c \in DigitSet |-> (CHOOSE i \in 1..10 : DigitChars[i] = c) - 1]
upper_ch(c) == IF IsLower(c) THEN ToUpper[c] ELSE c
lower_ch(c) == IF IsUpper(c) THEN ToLower[c] ELSE c
upper(s) == [i \in 1..Len(s) |-> upper_ch(s[i])]
lower(s) == [i \in 1..Len(s) |-> lower_ch(s[i])]

RECURSIVE lstrip_set(_, _)
lstrip_set(s, cs) ==
  IF s # <<>> /\ s[1] \in cs THEN lstrip_set(Tail(s), cs) ELSE s
RECURSIVE rstrip_set(_, _)
rstrip_set(s, cs) ==
  IF s # <<>> /\ s[Len(s)] \in cs
  THEN rstrip_set(SubSeq(s, 1, Len(s) - 1), cs) ELSE s
\* s.strip()
strip(s) == rstrip_set(lstrip_set(s, WS), WS)

\* s.replace(a, b) for one-character a and b
replace(s, a, b) == [i \in 1..Len(s) |-> IF s[i] = a THEN b ELSE s[i]]

\* re.sub("[cs]+", r, s): every maximal run of characters of cs becomes r
RECURSIVE re_sub_runs(_, _, _)
re_sub_runs(cs, r, s) ==
  IF s = <<>> THEN <<>>
  ELSE IF s[1] \in cs THEN r \o re_sub_runs(cs, r, lstrip_set(s, cs))
  ELSE <<s[1]>> \o re_sub_runs(cs, r, Tail(s))

startswith(s, p) == Len(s) >= Len(p) /\ SubSeq(s, 1, Len(p)) = p
contains_ch(s, c) == \E i \in 1..Len(s) : s[i] = c
\* str.isdigit(): non-empty and all digits
isdigit(s) == s # <<>> /\ \A i \in 1..Len(s) : IsDigit(s[i])

\* int(digits)
RECURSIVE int(_)
int(s) ==
  IF s = <<>> THEN 0
  ELSE 10 * int(SubSeq(s, 1, Len(s) - 1)) + DigitValue[s[Len(s)]]
\* str(n) for n >= 0
RECURSIVE str_int(_)
str_int(n) ==
  IF n < 10 THEN <<DigitChars[n + 1]>>
  ELSE str_int(n \div 10) \o <<DigitChars[(n % 10) + 1]>>

\* a < b in Python's string order
RECURSIVE str_lt(_, _)
str_lt(a, b) ==
  IF b = <<>> THEN FALSE
  ELSE IF a = <<>> THEN TRUE
  ELSE IF a[1] # b[1] THEN ord(a[1]) < ord(b[1])
  ELSE str_lt(Tail(a), Tail(b))

\* sorted(list(S)) for a set of strings
RECURSIVE sorted(_)
sorted(S) ==
  IF S = {} THEN <<>>
  ELSE LET m == CHOOSE x \in S : \A y \in S \ {x} : str_lt(x, y)
       IN <<m>> \o sorted(S \ {m})

Range(f) == {f[i] : i \in DOMAIN f}

RECURSIVE Flatten(_)
Flatten(ss) == IF ss = <<>> THEN <<>> ELSE Head(ss) \o Flatten(Tail(ss))

\* ------------------------------------------------------------------------
\* loader.district_key_variants
\* ------------------------------------------------------------------------
district_key_variants(d) ==
  IF ~truthy(d) THEN {}
  ELSE LET s == strip(str(d))
       IN {s, upper(s), re_sub_runs(WS, <<" ">>, s), re_sub_runs(WS, <<>>, upper(s))}

\* ------------------------------------------------------------------------
\* app.py: county code maps / converters
\* ------------------------------------------------------------------------
COUNTY_ABBR_2 ==
  (<<"B","E">> :> <<"B","e","l","k","n","a","p">>)
    @@ (<<"C","A">> :> <<"C","a","r","r","o","l","l">>)
    @@ (<<"C","H">> :> <<"C","h","e","s","h","i","r","e">>)
    @@ (<<"C","O">> :> <<"C","o","o","s">>)
    @@ (<<"G","R">> :> <<"G","r","a","f","t","o","n">>)
    @@ (<<"H","I">> :> <<"H","i","l","l","s","b","o","r","o","u","g","h">>)
    @@ (<<"M","E">> :> <<"M","e","r","r","i","m","a","c","k">>)
    @@ (<<"R","O">> :> <<"R","o","c","k","i","n","g","h","a","m">>)
    @@ (<<"S","T">> :> <<"S","t","r","a","f","f","o","r","d">>)
    @@ (<<"S","U">> :> <<"S","u","l","l","i","v","a","n">>)
COUNTY_2_TO_3 ==
  (<<"B","E">> :> <<"B","E","L">>)
    @@ (<<"C","A">> :> <<"C","A","R">>)
    @@ (<<"C","H">> :> <<"C","H","E">>)
    @@ (<<"C","O">> :> <<"C","O","O">>)
    @@ (<<"G","R">> :> <<"G","R","A">>)
    @@ (<<"H","I">> :> <<"H","I","L">>)
    @@ (<<"M","E">> :> <<"M","E","R">>)
    @@ (<<"R","O">> :> <<"R","O","C">>)
    @@ (<<"S","T">> :> <<"S","T","R">>)
    @@ (<<"S","U">> :> <<"S","U","L">>)
COUNTY_NAME_TO_3 ==
  [nm \in {COUNTY_ABBR_2[k2] : k2 \in DOMAIN COUNTY_ABBR_2} |->
     COUNTY_2_TO_3[CHOOSE k2 \in DOMAIN COUNTY_ABBR_2 : COUNTY_ABBR_2[k2] = nm]]

\* d.get(k, default)
dict_get(d, k, default) == IF k \in DOMAIN d THEN d[k] ELSE default

\* x or y
py_or(x, y) == IF truthy(x) THEN x ELSE y

NoMatch == [ok |-> FALSE, g1 |-> <<>>, g2 |-> <<>>]

\* re.fullmatch(r"([A-Z]{2})\s*-?\s*(\d+)", s)
fullmatch_code2(s) ==
  IF Len(s) >= 3 /\ IsUpper(s[1]) /\ IsUpper(s[2])
  THEN LET r1 == lstrip_set(SubSeq(s, 3, Len(s)), WS)
           r2 == IF r1 # <<>> /\ r1[1] = "-" THEN Tail(r1) ELSE r1
           r3 == lstrip_set(r2, WS)
       IN IF isdigit(r3) THEN [ok |-> TRUE, g1 |-> SubSeq(s, 1, 2), g2 |-> r3]
          ELSE NoMatch
  ELSE NoMatch

\* length of the longest prefix of s made of alphabetic characters
RECURSIVE alpha_prefix_len(_)
alpha_prefix_len(s) ==
  IF s # <<>> /\ IsAlpha(s[1]) THEN 1 + alpha_prefix_len(Tail(s)) ELSE 0

\* re.fullmatch(r"([A-Za-z]+)\s+(\d+)", s)
fullmatch_name(s) ==
  LET n  == alpha_prefix_len(s)
      r1 == SubSeq(s, n + 1, Len(s))
      r2 == lstrip_set(r1, WS)
  IN IF n >= 1 /\ Len(r2) < Len(r1) /\ isdigit(r2)
     THEN [ok |-> TRUE, g1 |-> SubSeq(s, 1, n), g2 |-> r2]
     ELSE NoMatch

\* s.split("-", 1) when "-" in s: <<left, right>>
split_hyphen(s) ==
  LET i == CHOOSE j \in 1..Len(s) : s[j] = "-" /\ \A k \in 1..(j - 1) : s[k] # "-"
  IN <<SubSeq(s, 1, i - 1), SubSeq(s, i + 1, Len(s))>>

\* GR15 -> Grafton 15; also 'Grafton-15' -> 'Grafton 15'
code_to_district_name(s0) ==
  IF ~truthy(s0) THEN s0
  ELSE LET s == strip(str(s0))
           m == fullmatch_code2(s)
       IN IF m.ok
          THEN dict_get(COUNTY_ABBR_2, m.g1, m.g1) \o <<" ">> \o str_int(int(m.g2))
          ELSE IF contains_ch(s, "-") /\ isdigit(strip(split_hyphen(s)[2]))
          THEN strip(split_hyphen(s)[1]) \o <<" ">> \o str_int(int(strip(split_hyphen(s)[2])))
          ELSE s

\* CSV-style 3-letter code 'GRA 15' given 'Grafton 15' or 'GR15'
three_letter_from_name_or_code(base_name, base_code) ==
  LET m  == fullmatch_code2(strip(py_or(base_code, <<>>)))
      m2 == fullmatch_name(strip(py_or(base_name, <<>>)))
  IN IF m.ok /\ m.g1 \in DOMAIN COUNTY_2_TO_3
     THEN COUNTY_2_TO_3[m.g1] \o <<" ">> \o str_int(int(m.g2))
     ELSE IF m2.ok /\ m2.g1 \in DOMAIN COUNTY_NAME_TO_3
     THEN COUNTY_NAME_TO_3[m2.g1] \o <<" ">> \o str_int(int(m2.g2))
     ELSE None

\* the keys one argument of variant_keys contributes before compaction
variant_keys_of(s0) ==
  IF ~truthy(s0) THEN {}
  ELSE LET s == strip(str(s0))
       IN district_key_variants(s)
          \cup (IF contains_ch(s, " ")
                THEN district_key_variants(replace(s, " ", "-")) ELSE {})
          \cup (IF contains_ch(s, "-")
                THEN district_key_variants(replace(s, "-", " ")) ELSE {})

\* variant_keys(*vals), as the set it builds (its list order is the set's)
variant_keys(vals) ==
  LET keys == UNION {variant_keys_of(vals[i]) : i \in DOMAIN vals}
      more == {re_sub_runs(WS \cup {"-"}, <<>>, upper(k)) : k \in keys}
  IN keys \cup more

\* ------------------------------------------------------------------------
\* loader.py: normalisers and the roll-call token classifier
\* ------------------------------------------------------------------------
\* None, real NaN, or literal 'nan'/case variants -> ''; else trimmed str
_norm(x) ==
  IF x = None \/ x = NaN THEN <<>>
  ELSE IF lower(strip(str(x))) = <<"n","a","n">> THEN <<>>
  ELSE strip(str(x))

YES_TOKENS ==
  {<<"Y">>,
   <<"Y","E","S">>,
   <<"Y","E","A">>,
   <<"A","Y","E">>,
   <<"P","R","O">>,
   <<"F","O","R">>,
   <<"A","P","P","R","O","V","E">>,
   <<"A","P","P","R","O","V","E","D">>}
NO_TOKENS ==
  {<<"N">>,
   <<"N","O">>,
   <<"N","A","Y">>,
   <<"A","G","A","I","N","S","T">>,
   <<"A","N","T","I">>,
   <<"R","E","J","E","C","T">>,
   <<"R","E","J","E","C","T","E","D">>}
NOVOTE_TOKENS ==
  {<<"N","V">>,
   <<"N","/","V">>,
   <<"A","B","S","T","A","I","N">>,
   <<"A","B","S","T","E","N","T","I","O","N">>,
   <<"A","B","S","E","N","T">>,
   <<"E","X","C","U","S","E","D">>,
   <<"P","R","E","S","E","N","T">>,
   <<"~">>,
   <<>>,
   <<"N","A">>,
   <<"N","/","A">>,
   <<"D","I","D"," ","N","O","T"," ","V","O","T","E">>,
   <<"D","I","D","N","'","T"," ","V","O","T","E">>}

\* _cell_to_yn, without the upper-casing of the cell
_cell_to_yn_case_sensitive(cell) ==
  IF cell = None \/ cell = NaN THEN "NV"
  ELSE LET U == strip(str(cell))
       IN IF startswith(U, <<"P","R","O","-">>) \/ startswith(U, <<"P","R","O"," ">>)
          THEN "Y"
          ELSE IF startswith(U, <<"A","N","T","I","-">>)
                    \/ startswith(U, <<"A","G","A","I","N","S","T">>)
          THEN "N"
          ELSE IF U \in NOVOTE_TOKENS THEN "NV"
          ELSE IF U \in YES_TOKENS THEN "Y"
          ELSE IF U \in NO_TOKENS THEN "N"
          ELSE "NV"

_cell_to_yn(cell) ==
  IF cell = None \/ cell = NaN THEN "NV"
  ELSE LET U == upper(strip(str(cell)))
       IN IF startswith(U, <<"P","R","O","-">>) \/ startswith(U, <<"P","R","O"," ">>)
          THEN "Y"
          ELSE IF startswith(U, <<"A","N","T","I","-">>)
                    \/ startswith(U, <<"A","G","A","I","N","S","T">>)
          THEN "N"
          ELSE IF U \in NOVOTE_TOKENS THEN "NV"
          ELSE IF U \in YES_TOKENS THEN "Y"
          ELSE IF U \in NO_TOKENS THEN "N"
          ELSE "NV"

\* class IssueDef, built from one row of issues.csv
IssueDef(r) ==
  [slug         |-> _norm(r.slug),
   csv_header   |-> _norm(r.csv_header),
   label        |-> _norm(py_or(r.label, _norm(r.csv_header))),
   bill         |-> _norm(r.bill),
   bill_url     |-> _norm(r.bill_url),
   support_when |-> IF upper(_norm(r.support_when)) = <<"N">> THEN "N" ELSE "Y"]

\* _load_issues(): [] when issues.csv does not exist, else one IssueDef per row
_load_issues(issues_csv) ==
  IF ~issues_csv.exists THEN <<>>
  ELSE [i \in 1..Len(issues_csv.rows) |-> IssueDef(issues_csv.rows[i])]

\* slugify(x) = re.sub(r"[^a-z0-9]+", "_", x.lower()).strip("_")
RECURSIVE slug_runs(_)
slug_runs(s) ==
  IF s = <<>> THEN <<>>
  ELSE IF IsLower(s[1]) \/ IsDigit(s[1]) THEN <<s[1]>> \o slug_runs(Tail(s))
  ELSE IF Len(s) >= 2 /\ ~(IsLower(s[2]) \/ IsDigit(s[2])) THEN slug_runs(Tail(s))
  ELSE <<"_">> \o slug_runs(Tail(s))
slugify(x) == rstrip_set(lstrip_set(slug_runs(lower(x)), {"_"}), {"_"})

\* the issue list load_votes works with: issues.csv, or the roster's vote columns
issues_of(votes_csv, issues_csv) ==
  IF _load_issues(issues_csv) # <<>> THEN _load_issues(issues_csv)
  ELSE [i \in 1..Len(votes_csv.vote_cols) |->
          [slug |-> slugify(votes_csv.vote_cols[i]),
           csv_header |-> votes_csv.vote_cols[i],
           label |-> votes_csv.vote_cols[i],
           bill |-> <<>>, bill_url |-> <<>>, support_when |-> "Y"]]

\* row.get(header): the cell, or None when the roster has no such column
row_get(row, header) ==
  IF header \in DOMAIN row.cells THEN row.cells[header] ELSE None

\* stance_of, ignoring the issue's polarity
stance_of_yes_is_support(yn, support_when) ==
  IF yn = "NV" THEN "no_vote" ELSE IF yn = "Y" THEN "support" ELSE "oppose"

\* the stance of one vote (load_votes, inner loop body)
stance_of(yn, support_when) ==
  IF yn = "NV" THEN "no_vote"
  ELSE IF (yn = "Y") = (support_when = "Y") THEN "support" ELSE "oppose"

vote_entry(row, it) ==
  LET raw == row_get(row, it.csv_header)
      yn  == _cell_to_yn(raw)
  IN [stance |-> stance_of(yn, it.support_when),
      raw    |-> IF yn = "NV" THEN <<>> ELSE _norm(raw),
      vote   |-> yn]

\* votes[it.slug] = ... for it in issues: a later issue of the same slug wins
RECURSIVE votes_of(_, _)
votes_of(row, issues) ==
  IF issues = <<>> THEN <<>>
  ELSE LET n    == Len(issues)
           prev == votes_of(row, SubSeq(issues, 1, n - 1))
       IN (issues[n].slug :> vote_entry(row, issues[n])) @@ prev

\* rid: the roster id cell (None when the column is absent), else name|district
rid_of(row) ==
  str(py_or(row.id, str(row.name) \o <<"|">> \o str(row.district)))

rep_record(row, issues) ==
  [id       |-> rid_of(row),
   name     |-> _norm(row.name),
   party    |-> _norm(row.party),
   district |-> _norm(row.district),
   votes    |-> votes_of(row, issues)]

\* d.setdefault(key, []).append(v) for every key of keys
setdefault_append(d, keys, v) ==
  [k \in DOMAIN d \cup keys |->
     (IF k \in DOMAIN d THEN d[k] ELSE <<>>) \o (IF k \in keys THEN <<v>> ELSE <<>>)]

\* load_rows, storing each record under name|district while the index holds rid
RECURSIVE load_rows_info_by_name(_, _)
load_rows_info_by_name(rows, issues) ==
  IF rows = <<>> THEN [by |-> <<>>, info |-> <<>>]
  ELSE LET n    == Len(rows)
           prev == load_rows_info_by_name(SubSeq(rows, 1, n - 1), issues)
           rec  == rep_record(rows[n], issues)
           key  == str(rows[n].name) \o <<"|">> \o str(rows[n].district)
       IN [by   |-> setdefault_append(prev.by, district_key_variants(rec.district), rec.id),
           info |-> (key :> rec) @@ prev.info]

\* load_votes(), the loop over the roster rows: (reps_by_district, rep_info)
RECURSIVE load_rows(_, _)
load_rows(rows, issues) ==
  IF rows = <<>> THEN [by |-> <<>>, info |-> <<>>]
  ELSE LET n    == Len(rows)
           prev == load_rows(SubSeq(rows, 1, n - 1), issues)
           rec  == rep_record(rows[n], issues)
       IN [by   |-> setdefault_append(prev.by, district_key_variants(rec.district), rec.id),
           info |-> (rec.id :> rec) @@ prev.info]

\* load_votes(): (reps_by_district, rep_info, issues_out)
load_votes(votes_csv, issues_csv) ==
  LET issues == issues_of(votes_csv, issues_csv)
      l      == load_rows(votes_csv.rows, issues)
  IN [reps_by_district |-> l.by, rep_info |-> l.info, issues |-> issues]

\* load_floterials(), one table: rows of (source, floterial) cells
RECURSIVE load_flot_rows(_, _)
load_flot_rows(rows, is_town) ==
  IF rows = <<>> THEN <<>>
  ELSE LET n    == Len(rows)
           prev == load_flot_rows(SubSeq(rows, 1, n - 1), is_town)
           src  == IF is_town THEN upper(_norm(rows[n].src)) ELSE _norm(rows[n].src)
           flot == _norm(rows[n].floterial)
       IN IF src # <<>> /\ flot # <<>>
          THEN setdefault_append(prev, {src}, flot)
          ELSE prev

load_floterials(flot_base_csv, flot_town_csv) ==
  [base_to_flots |-> load_flot_rows(flot_base_csv, FALSE),
   town_to_flots |-> load_flot_rows(flot_town_csv, TRUE)]

\* ------------------------------------------------------------------------
\* State
\* ------------------------------------------------------------------------
VARIABLES
  data,           \* the data directory: votes_csv, issues_csv, the two floterial tables, geojson
  loaded,         \* whether the module-level loading of app.py has run
  DIST_SHAPES,    \* list of (geom, district string)
  BASE_TO_FLOTS,  \* dict base label -> list of floterial labels
  TOWN_TO_FLOTS,  \* dict TOWN -> list of floterial labels
  REPS_BY_DIST,   \* dict district key -> list of representative ids
  REP_INFO,       \* dict representative id -> record
  ISSUES,         \* list of issue dicts
  call,           \* the last /lookup: its request, its locals and its response
  norm            \* the key normaliser applied to two labels of one district

vars ==
  <<data, loaded, DIST_SHAPES, BASE_TO_FLOTS, TOWN_TO_FLOTS, REPS_BY_DIST,
    REP_INFO, ISSUES, call, norm>>

\* ------------------------------------------------------------------------
\* app.py: polygons
\* ------------------------------------------------------------------------
\* shapely geometry of a base district: an axis-parallel rectangle
\* [x0, x1] x [y0, y1]; x is the longitude and y the latitude.  A feature
\* without a geometry has kind "none".
geom_contains(g, p) == g.x0 < p.x /\ p.x < g.x1 /\ g.y0 < p.y /\ p.y < g.y1
geom_intersects(g, p) == g.x0 <= p.x /\ p.x <= g.x1 /\ g.y0 <= p.y /\ p.y <= g.y1

\* Point(lon, lat)
Point(x, y) == [x |-> x, y |-> y]

\* the module-level loop building DIST_SHAPES from GEO.items
RECURSIVE build_dist_shapes(_)
build_dist_shapes(items) ==
  IF items = <<>> THEN <<>>
  ELSE LET n    == Len(items)
           prev == build_dist_shapes(SubSeq(items, 1, n - 1))
           feat == items[n]
       IN IF truthy(feat.district_name) /\ feat.geometry.kind # "none"
          THEN Append(prev, [geom |-> feat.geometry,
                             dname |-> strip(str(feat.district_name))])
          ELSE prev

\* Point-in-polygon on base districts; accept boundary touches
RECURSIVE first_hit(_, _)
first_hit(shapes, p) ==
  IF shapes = <<>> THEN None
  ELSE IF geom_contains(shapes[1].geom, p) \/ geom_intersects(shapes[1].geom, p)
  THEN shapes[1].dname
  ELSE first_hit(Tail(shapes), p)

_base_from_point(lat, lon) ==
  IF DIST_SHAPES = <<>> THEN None ELSE first_hit(DIST_SHAPES, Point(lon, lat))

\* ------------------------------------------------------------------------
\* app.py: lookup()
\* ------------------------------------------------------------------------
\* s.replace(" ", "")
remove_spaces(s) == SelectSeq(s, LAMBDA c : c # " ")

\* candidate_keys as a set: variant_keys(base_name, base_code, csv_code3)
candidate_key_set(base_code) ==
  LET base_name == code_to_district_name(base_code)
      csv_code3 == three_letter_from_name_or_code(base_name, base_code)
  IN variant_keys(<<base_name, base_code, csv_code3>>)

\* the element lookup appends to candidate_keys: csv_code3.replace(" ", "")
candidate_key_tail(base_code) ==
  LET base_name == code_to_district_name(base_code)
      csv_code3 == three_letter_from_name_or_code(base_name, base_code)
  IN IF truthy(csv_code3) THEN <<remove_spaces(csv_code3)>> ELSE <<>>

\* floterials mapped by base (name/code/3-letter, and their variants)
flots_by_base(base_code) ==
  LET base_name == code_to_district_name(base_code)
      csv_code3 == three_letter_from_name_or_code(base_name, base_code)
      tried     == UNION {IF truthy(s) THEN {s} \cup variant_keys(<<s>>) ELSE {}
                            : s \in {base_name, base_code, csv_code3}}
  IN UNION {Range(dict_get(BASE_TO_FLOTS, k, <<>>)) : k \in tried}

\* floterials mapped by town
flots_by_town(town_upper) ==
  IF truthy(town_upper) THEN Range(dict_get(TOWN_TO_FLOTS, town_upper, <<>>)) ELSE {}

\* flots_of, consulting the town table only when the base table gave nothing
flots_of_town_as_fallback(base_code, town_upper) ==
  IF flots_by_base(base_code) # {} THEN flots_by_base(base_code)
  ELSE flots_by_town(town_upper)

flots_of(base_code, town_upper) == flots_by_base(base_code) \cup flots_by_town(town_upper)

\* flot_key_set, probing only the 3-letter code variants of the label
flot_key_set_three_letter_only(f) ==
  LET f3 == three_letter_from_name_or_code(f, <<>>)
  IN IF truthy(f3) THEN variant_keys(<<f3>>) \cup {remove_spaces(f3)} ELSE {}

\* the keys probed for one floterial: label, its variants, its 3-letter variants
flot_key_set(f) ==
  LET f3 == three_letter_from_name_or_code(f, <<>>)
  IN variant_keys(<<f>>)
       \cup (IF truthy(f3) THEN variant_keys(<<f3>>) \cup {remove_spaces(f3)} ELSE {})

\* rep_ids.extend(REPS_BY_DIST.get(key, [])) for key in keys
probe(keys) == Flatten([i \in DOMAIN keys |-> dict_get(REPS_BY_DIST, keys[i], <<>>)])

RECURSIVE Perms(_)
Perms(S) ==
  IF S = {} THEN {<<>>}
  ELSE UNION {{<<x>> \o q : q \in Perms(S \ {x})} : x \in S}

RECURSIVE repeat(_, _)
repeat(l, n) == IF n = 0 THEN <<>> ELSE l \o repeat(l, n - 1)

\* What probing a Python set of keys can append to rep_ids.  The iteration
\* order of a set of strings is not fixed (string hashing is seeded per
\* process).  Keys without an entry append nothing and keys with equal entries
\* are interchangeable, so the orders are enumerated over the distinct entries,
\* the keys of one entry probed in a row.
probe_set(K) ==
  LET hits  == K \cap DOMAIN REPS_BY_DIST
      lists == {REPS_BY_DIST[k] : k \in hits}
      mult(l) == Cardinality({k \in hits : REPS_BY_DIST[k] = l})
  IN {Flatten([i \in DOMAIN o |-> repeat(o[i], mult(o[i]))]) : o \in Perms(lists)}

\* for f in sorted(list(flots)): probe keys(f)
RECURSIVE probe_flots(_)
probe_flots(fs) ==
  IF fs = <<>> THEN {<<>>}
  ELSE {a \o b : a \in probe_set(flot_key_set(Head(fs))), b \in probe_flots(Tail(fs))}

\* dedup, keeping the last occurrence of an id instead of the first
RECURSIVE dedup_keep_last(_)
dedup_keep_last(ids) ==
  IF ids = <<>> THEN <<>>
  ELSE LET rest == dedup_keep_last(Tail(ids))
       IN IF ids[1] \in Range(rest) THEN rest ELSE <<ids[1]>> \o rest

\* De-dup, keep order
RECURSIVE dedup(_)
dedup(ids) ==
  IF ids = <<>> THEN <<>>
  ELSE LET n    == Len(ids)
           prev == dedup(SubSeq(ids, 1, n - 1))
       IN IF ids[n] \in Range(prev) THEN prev ELSE Append(prev, ids[n])

\* ?issues=slug,slug limits the votes of each representative
filter_rep(rep, only_slugs) ==
  IF only_slugs = {} THEN rep
  ELSE [rep EXCEPT !.votes = [k \in DOMAIN rep.votes \cap only_slugs |-> rep.votes[k]]]

\* Clean NaN-like floterials in the response
clean_flots(flots) ==
  {f \in flots : truthy(f) /\ strip(str(f)) # <<>>
                 /\ lower(strip(str(f))) \notin {<<"n","a","n">>, <<"<","n","a","n",">">>}}

NoCall == [status |-> 0]

\* the response of lookup() for a located point: req is the request (lat,
\* lon, town, only_slugs), loc the locals base_code, flots and rep_ids
lookup_response(req, loc) ==
  LET ordered    == dedup(loc.rep_ids)
      issues_out == IF req.only_slugs = {} THEN ISSUES
                    ELSE SelectSeq(ISSUES, LAMBDA i : i.slug \in req.only_slugs)
  IN IF \E i \in DOMAIN ordered : ordered[i] \notin DOMAIN REP_INFO
     THEN [status |-> 500, lat |-> req.lat, lon |-> req.lon, town |-> req.town,
           rep_ids |-> loc.rep_ids, flots |-> loc.flots]
     ELSE [status        |-> 200,
           lat           |-> req.lat,
           lon           |-> req.lon,
           town          |-> req.town,
           rep_ids       |-> loc.rep_ids,
           flots         |-> loc.flots,
           base_code     |-> loc.base_code,
           base_district |-> code_to_district_name(loc.base_code),
           floterials    |-> sorted(clean_flots(loc.flots)),
           issues        |-> issues_out,
           vote_columns  |-> [i \in DOMAIN issues_out |-> issues_out[i].slug],
           reps          |-> [i \in DOMAIN ordered |->
                                filter_rep(REP_INFO[ordered[i]], req.only_slugs)]]

\* ------------------------------------------------------------------------
\* Actions
\* ------------------------------------------------------------------------
\* app.py module level: load_geoindex, load_floterials, load_votes, DIST_SHAPES
LoadData ==
  /\ ~loaded
  /\ loaded' = TRUE
  /\ LET fl == load_floterials(data.flot_base_csv, data.flot_town_csv)
         lv == load_votes(data.votes_csv, data.issues_csv)
     IN /\ BASE_TO_FLOTS' = fl.base_to_flots
        /\ TOWN_TO_FLOTS' = fl.town_to_flots
        /\ REPS_BY_DIST' = lv.reps_by_district
        /\ REP_INFO' = lv.rep_info
        /\ ISSUES' = lv.issues
  /\ DIST_SHAPES' = build_dist_shapes(data.geojson)
  /\ UNCHANGED <<data, call, norm>>

\* lookup() from the point on: the polygon, the base probes, the floterials
\* and their probes, the response
Resolve(lat, lon, town_upper, only_slugs) ==
  LET base_code == _base_from_point(lat, lon)
      flots     == flots_of(base_code, town_upper)
      req       == [lat |-> lat, lon |-> lon, town |-> town_upper, only_slugs |-> only_slugs]
  IN \E base_ids \in probe_set(candidate_key_set(base_code)),
        flot_ids \in probe_flots(sorted(flots)) :
       call' = lookup_response(req,
                 [base_code |-> base_code, flots |-> flots,
                  rep_ids |-> base_ids \o probe(candidate_key_tail(base_code)) \o flot_ids])

\* LookupLatLon, filtering the module's issue list in place
LookupLatLon_filtering_in_place(lat, lon, only_slugs) ==
  /\ loaded
  /\ call = NoCall
  /\ Resolve(lat, lon, <<>>, only_slugs)
  /\ ISSUES' = IF only_slugs = {} THEN ISSUES
               ELSE SelectSeq(ISSUES, LAMBDA i : i.slug \in only_slugs)
  /\ UNCHANGED <<data, loaded, DIST_SHAPES, BASE_TO_FLOTS, TOWN_TO_FLOTS,
                 REPS_BY_DIST, REP_INFO, norm>>

\* GET /lookup?lat=..&lon=..[&issues=..]: the geocoder is not called, town is ""
LookupLatLon(lat, lon, only_slugs) ==
  /\ loaded
  /\ call = NoCall
  /\ Resolve(lat, lon, <<>>, only_slugs)
  /\ UNCHANGED <<data, loaded, DIST_SHAPES, BASE_TO_FLOTS, TOWN_TO_FLOTS,
                 REPS_BY_DIST, REP_INFO, ISSUES, norm>>

\* GET /lookup?address=..: geo is what _geocode_census answered, after the
\* ", NH" retry: (None, None, "") (found is FALSE) or (lat, lon, TOWN)
LookupAddress(geo, only_slugs) ==
  /\ loaded
  /\ call = NoCall
  /\ IF ~geo.found
     THEN call' = [status |-> 422]
     ELSE Resolve(geo.lat, geo.lon, geo.town, only_slugs)
  /\ UNCHANGED <<data, loaded, DIST_SHAPES, BASE_TO_FLOTS, TOWN_TO_FLOTS,
                 REPS_BY_DIST, REP_INFO, ISSUES, norm>>

\* return jsonify(resp): the request is over, the worker takes the next one
Respond ==
  /\ call # NoCall
  /\ call' = NoCall
  /\ UNCHANGED <<data, loaded, DIST_SHAPES, BASE_TO_FLOTS, TOWN_TO_FLOTS,
                 REPS_BY_DIST, REP_INFO, ISSUES, norm>>

\* variant_keys / district_key_variants applied to two labels of one district
NormalizeKeys ==
  /\ ~norm.done
  /\ norm' = [norm EXCEPT !.done = TRUE,
                          !.ka = variant_keys(<<norm.a>>),
                          !.kb = variant_keys(<<norm.b>>),
                          !.da = district_key_variants(norm.a),
                          !.db = district_key_variants(norm.b)]
  /\ UNCHANGED <<data, loaded, DIST_SHAPES, BASE_TO_FLOTS, TOWN_TO_FLOTS,
                 REPS_BY_DIST, REP_INFO, ISSUES, call>>

\* ------------------------------------------------------------------------
\* Inputs
\* ------------------------------------------------------------------------
MaxRows == 2    \* roster rows
MaxTable == 1   \* rows of each floterial table
MaxZeros == 1
MaxNum == 12    \* district numbers

\* sequences over S of length at most n
SeqsUpTo(S, n) == UNION {[1..k -> S] : k \in 0..n}

\* the observed forms of the label of district n of the county with code c2
Forms == {"code2", "code3", "name", "hyphen"}
Label(form, c2, n) ==
  CASE form = "code2"  -> c2 \o str_int(n)
    [] form = "code3"  -> COUNTY_2_TO_3[c2] \o <<" ">> \o str_int(n)
    [] form = "name"   -> COUNTY_ABBR_2[c2] \o <<" ">> \o str_int(n)
    [] form = "hyphen" -> COUNTY_ABBR_2[c2] \o <<"-">> \o str_int(n)

\* two adjacent base districts sharing the edge x = 2
West == [kind |-> "Polygon", x0 |-> 0, x1 |-> 2, y0 |-> 0, y1 |-> 2]
East == [kind |-> "Polygon", x0 |-> 2, x1 |-> 4, y0 |-> 0, y1 |-> 2]
\* (lon, lat): inside West, on the shared edge, inside East, outside both
Points == {<<1, 1>>, <<2, 1>>, <<3, 1>>, <<5, 1>>}

GR == <<"G","R">>
CO == <<"C","O">>
FLOT1 == <<"G","R","A","-","F","L","O","T","-","1">>
ANN == <<"A","n","n">>
BOB == <<"B","o","b">>
Lyme == <<"L","y","m","e">>
LYME == <<"L","Y","M","E">>
HB1_SLUG == <<"h","b","1">>
HB9_SLUG == <<"h","b","9">>
GR15 == Label("code2", GR, 15)
CO1 == Label("code2", CO, 1)
Feature(label, g) == [district_name |-> label, geometry |-> g]
RosterRow(id, name, district) ==
  [id |-> id, name |-> name, district |-> district, party |-> <<"D">>, cells |-> <<>>]
Roster(id_col, vote_cols, rows) == [id_col |-> id_col, vote_cols |-> vote_cols, rows |-> rows]
TableRow(src, flot) == [src |-> src, floterial |-> flot]
NoIssuesFile == [exists |-> FALSE, rows |-> <<>>]
IssuesFile(rows) == [exists |-> TRUE, rows |-> rows]
DataDir(votes, issues, fbase, ftown, geo) ==
  [votes_csv |-> votes, issues_csv |-> issues, flot_base_csv |-> fbase,
   flot_town_csv |-> ftown, geojson |-> geo]

Names == {ANN, BOB}
FlotLabels == {FLOT1, <<"G","R","A","1","5">>}
Towns == {LYME}

\* the datasets of the general specification
GeoFiles ==
  {<<>>} \cup
  {<<Feature(l1, West), Feature(l2, East)>> :
     l1 \in {GR15, Label("name", GR, 15)}, l2 \in {CO1}}
RosterRows ==
  {RosterRow(None, ANN, Label("code3", GR, 15)), RosterRow(None, BOB, Label("name", GR, 15)),
   RosterRow(None, ANN, FLOT1)}
BaseTables ==
  SeqsUpTo({TableRow(b, f) : b \in {GR15, Label("name", GR, 15)}, f \in FlotLabels},
           MaxTable)
TownTables ==
  SeqsUpTo({TableRow(tw, f) : tw \in {Lyme}, f \in FlotLabels}, MaxTable)
MainData ==
  {DataDir(Roster(FALSE, <<>>, rows), NoIssuesFile, fb, ft, geo) :
     rows \in SeqsUpTo(RosterRows, MaxRows), fb \in BaseTables,
     ft \in TownTables, geo \in GeoFiles}

\* what the geocoder can answer: nothing, or a point and its upper-cased town
\* (an answer without a town resolves as LookupLatLon does)
Geocodes ==
  {[found |-> FALSE, lat |-> 0, lon |-> 0, town |-> <<>>]} \cup
  {[found |-> TRUE, lat |-> p[2], lon |-> p[1], town |-> tw] : p \in Points, tw \in Towns}
OnlySlugs == {{}, {HB1_SLUG}, {HB9_SLUG}}

NoNorm == [done |-> FALSE, a |-> <<>>, b |-> <<>>, ka |-> {}, kb |-> {}, da |-> {}, db |-> {}]
EmptyData == DataDir(Roster(FALSE, <<>>, <<>>), NoIssuesFile, <<>>, <<>>, <<>>)

\* the state before the module-level loading, for a data directory of D
InitWith(D, N) ==
  /\ data \in D
  /\ loaded = FALSE
  /\ DIST_SHAPES = <<>>
  /\ BASE_TO_FLOTS = <<>>
  /\ TOWN_TO_FLOTS = <<>>
  /\ REPS_BY_DIST = <<>>
  /\ REP_INFO = <<>>
  /\ ISSUES = <<>>
  /\ call = NoCall
  /\ norm \in N

Init == InitWith(MainData, {NoNorm})

\* Only is the set of values the issues parameter of /lookup takes
NextWith(Only) ==
  \/ LoadData
  \/ \E p \in Points, only \in Only : LookupLatLon(p[2], p[1], only)
  \/ \E geo \in Geocodes, only \in Only : LookupAddress(geo, only)
  \/ Respond

Next == NextWith({{}})

Spec == Init /\ [][Next]_vars

\* the lookup of a polygon labelled in one form against a roster row
\* labelled in any form of the same or of the next district
FormsData ==
  {DataDir(Roster(FALSE, <<>>,
                  <<RosterRow(None, ANN, Label(f[2], c2, IF same THEN n ELSE (n % MaxNum) + 1))>>),
           NoIssuesFile, <<>>, <<>>, <<Feature(Label(f[1], c2, n), West)>>) :
     c2 \in DOMAIN COUNTY_ABBR_2, n \in 1..MaxNum, f \in Forms \X Forms, same \in BOOLEAN}
InitForms == InitWith(FormsData, {NoNorm})
SpecForms == InitForms /\ [][Next]_vars

\* rosters with and without the openstates_person_id column
P1 == <<"p","1">>
P2 == <<"p","2">>
IdRosters ==
  {Roster(FALSE, <<>>, rows) :
     rows \in SeqsUpTo({RosterRow(None, nm, d) :
                          nm \in Names, d \in {Label("code3", GR, 15), FLOT1}}, MaxRows)}
  \cup
  {Roster(TRUE, <<>>, rows) :
     rows \in SeqsUpTo({RosterRow(id, nm, d) :
                          id \in {NaN, P1, P2}, nm \in Names,
                          d \in {Label("code3", GR, 15), NaN}}, MaxRows)}
RosterData ==
  {DataDir(r, NoIssuesFile, <<>>, <<>>, <<Feature(GR15, West)>>) : r \in IdRosters}
InitRoster == InitWith(RosterData, {NoNorm})
SpecRoster == InitRoster /\ [][Next]_vars

\* roll-call cells: words in upper case, lower case and capitalised, bare
\* and padded with blanks
AffirmativeWords ==
  {<<"Y">>,
   <<"Y","E","S">>,
   <<"Y","E","A">>,
   <<"A","Y","E">>,
   <<"P","R","O">>,
   <<"F","O","R">>,
   <<"A","P","P","R","O","V","E">>,
   <<"A","P","P","R","O","V","E","D">>,
   <<"P","R","O","-","H","B","1">>,
   <<"P","R","O"," ","H","B","1">>}
NegativeWords ==
  {<<"N">>,
   <<"N","O">>,
   <<"N","A","Y">>,
   <<"A","G","A","I","N","S","T">>,
   <<"A","N","T","I">>,
   <<"R","E","J","E","C","T">>,
   <<"R","E","J","E","C","T","E","D">>,
   <<"A","N","T","I","-","H","B","1">>,
   <<"A","G","A","I","N","S","T"," ","H","B","1">>}
OtherWords ==
  {<<"N","V">>,
   <<"N","/","V">>,
   <<"A","B","S","T","A","I","N">>,
   <<"A","B","S","T","E","N","T","I","O","N">>,
   <<"A","B","S","E","N","T">>,
   <<"E","X","C","U","S","E","D">>,
   <<"P","R","E","S","E","N","T">>,
   <<"~">>,
   <<"N","A">>,
   <<"N","/","A">>,
   <<"N","A","N">>,
   <<"D","I","D"," ","N","O","T"," ","V","O","T","E">>,
   <<"D","I","D","N","'","T"," ","V","O","T","E">>,
   <<"M","A","Y","B","E">>,
   <<"P","R","O","B","A","B","L","Y">>,
   <<"A","N","T","I","Q","U","E">>,
   <<"N","O","P","E">>,
   <<"Y","E","S","S">>}
capitalize(w) == IF w = <<>> THEN w ELSE <<upper_ch(w[1])>> \o lower(Tail(w))
Spellings(w) ==
  {w, lower(w), capitalize(w),
   <<" ">> \o w \o <<" ">>, <<" ">> \o lower(w) \o <<" ", " ">>, <<" ", " ">>}
Cells ==
  {NaN} \cup UNION {Spellings(w) : w \in AffirmativeWords \cup NegativeWords \cup OtherWords}
HB1 == <<"H","B","1">>
HB9 == <<"H","B","9">>
SupportWhenCells == {NaN, <<"Y">>, <<"N">>, <<" ","n"," ">>, <<"N","O">>}
IssueRow(header, sw) ==
  [slug |-> HB1_SLUG, csv_header |-> header, label |-> NaN, bill |-> NaN,
   bill_url |-> NaN, support_when |-> sw]
VotesData ==
  {DataDir(Roster(FALSE, <<HB1>>,
                  <<[RosterRow(None, ANN, Label("code3", GR, 15)) EXCEPT !.cells = (HB1 :> c)]>>),
           iss, <<TableRow(GR15, FLOT1)>>, <<TableRow(Lyme, FLOT1)>>,
           <<Feature(GR15, West)>>) :
     c \in Cells,
     iss \in {NoIssuesFile}
             \cup {IssuesFile(<<IssueRow(h, sw)>>) : h \in {HB1, HB9}, sw \in SupportWhenCells}}
InitVotes == InitWith(VotesData, {NoNorm})
NextVotes == NextWith(OnlySlugs)
SpecVotes == InitVotes /\ [][NextVotes]_vars

\* district numbers written with leading zeros: a polygon labelled with the
\* 2-letter code against a roster row labelled with the 3-letter code
Zeros(z) == [i \in 1..z |-> "0"]
PaddedLabel(form, c2, n, z) ==
  CASE form = "code2" -> c2 \o Zeros(z) \o str_int(n)
    [] form = "code3" -> COUNTY_2_TO_3[c2] \o <<" ">> \o Zeros(z) \o str_int(n)
ZerosData ==
  {DataDir(Roster(FALSE, <<>>, <<RosterRow(None, ANN, PaddedLabel("code3", c2, n, zr))>>),
           NoIssuesFile, <<>>, <<>>, <<Feature(PaddedLabel("code2", c2, n, zp), West)>>) :
     c2 \in DOMAIN COUNTY_ABBR_2, n \in 1..MaxNum, zp \in 0..MaxZeros, zr \in 0..MaxZeros}
InitZeros == InitWith(ZerosData, {NoNorm})
SpecZeros == InitZeros /\ [][Next]_vars

\* the normaliser alone: two different forms of one district
NormInputs ==
  {[NoNorm EXCEPT !.a = Label(f[1], c2, n), !.b = Label(f[2], c2, n)] :
     c2 \in DOMAIN COUNTY_ABBR_2, n \in 1..MaxNum,
     f \in {g \in Forms \X Forms : g[1] # g[2]}}
InitKeys == InitWith({EmptyData}, NormInputs)
NextKeys == NormalizeKeys
SpecKeys == InitKeys /\ [][NextKeys]_vars

\* ------------------------------------------------------------------------
\* Properties
\* ------------------------------------------------------------------------
Rows == data.votes_csv.rows
Located == call.status = 200
RepIds == [i \in DOMAIN call.reps |-> call.reps[i].id]
FirstIndex(q, x) == CHOOSE i \in DOMAIN q : q[i] = x /\ \A j \in 1..(i - 1) : q[j] # x
\* the polygons the requested point is strictly inside of
InsideOf == {i \in DOMAIN DIST_SHAPES :
               geom_contains(DIST_SHAPES[i].geom, Point(call.lon, call.lat))}
\* the polygons that contain or touch the requested point
TouchedBy == {i \in DOMAIN DIST_SHAPES :
                geom_intersects(DIST_SHAPES[i].geom, Point(call.lon, call.lat))}
\* the forms of one district
SameDistrict(a, b) ==
  \E c2 \in DOMAIN COUNTY_ABBR_2, n \in 1..MaxNum :
    /\ a \in {Label(f, c2, n) : f \in Forms}
    /\ b \in {Label(f, c2, n) : f \in Forms}

\* C1: the key-variant sets the normaliser produces for two different forms
\* of one district (any of the 10 counties, any number) share a key.
C1_VariantSetsIntersect ==
  norm.done => norm.ka \cap norm.kb # {}

\* C2: a located point resolves to every base district polygon that contains
\* or touches it; on the edge two polygons share, to both of them.
C2_PointResolvesToEveryTouchingPolygon ==
  Located =>
    \A i \in TouchedBy :
      DIST_SHAPES[i].dname \in (IF call.base_code = None THEN {} ELSE {call.base_code})

\* C3: a located point that falls in no base district gets an empty floterial
\* set and an empty representative list, whatever its town.
C3_NoBaseDistrictMeansEmptyResult ==
  (Located /\ call.base_code = None) =>
    (call.flots = {} /\ call.floterials = <<>> /\ call.reps = <<>>)

\* C4: a roster row with an external id is identified by it, a row without
\* one (no id column, or a blank id cell) by name|district; two rows without
\* an external id that differ in name or district have distinct records in
\* rep_info.
C4_RowsWithoutIdGetDistinctRecords ==
  loaded =>
    /\ \A i \in DOMAIN Rows :
         LET key == IF Rows[i].id \in {None, NaN}
                    THEN str(Rows[i].name) \o <<"|">> \o str(Rows[i].district)
                    ELSE Rows[i].id
         IN key \in DOMAIN REP_INFO
    /\ \A i, j \in DOMAIN Rows :
         ( /\ Rows[i].id \in {None, NaN}
           /\ Rows[j].id \in {None, NaN}
           /\ (Rows[i].name # Rows[j].name \/ Rows[i].district # Rows[j].district) )
         => \E k1, k2 \in DOMAIN REP_INFO :
              /\ k1 # k2
              /\ REP_INFO[k1].name = _norm(Rows[i].name)
              /\ REP_INFO[k1].district = _norm(Rows[i].district)
              /\ REP_INFO[k2].name = _norm(Rows[j].name)
              /\ REP_INFO[k2].district = _norm(Rows[j].district)

\* the floterial labels the base table file gives the label b, and the roster
\* rows seated in the district labelled f
FileFlotsOfBase(b) ==
  {_norm(data.flot_base_csv[i].floterial) :
     i \in {j \in DOMAIN data.flot_base_csv : _norm(data.flot_base_csv[j].src) = b}} \ {<<>>}
RowsSeatedIn(f) == {i \in DOMAIN Rows : _norm(Rows[i].district) = f}

\* C5: when the base table maps the label of a polygon to a floterial label
\* and a roster row is seated in that floterial district, a lookup of a point
\* inside the polygon returns that representative.
C5_FloterialRepOfBaseIsReturned ==
  Located =>
    \A p \in InsideOf :
      \A f \in FileFlotsOfBase(DIST_SHAPES[p].dname) :
        \A i \in RowsSeatedIn(f) : rid_of(Rows[i]) \in Range(RepIds)

C5_Witness ==
  /\ Located
  /\ \E p \in InsideOf :
       \E f \in FileFlotsOfBase(DIST_SHAPES[p].dname) :
         \E i \in RowsSeatedIn(f) :
           /\ rid_of(Rows[i]) \in Range(RepIds)
           /\ f \notin candidate_key_set(call.base_code)
           /\ district_key_variants(f) \cap candidate_key_set(call.base_code) = {}

\* C6: a lookup inside a polygon labelled in one observed form returns every
\* roster representative whose district label is any observed form of the
\* same district.
C6_EveryFormOfTheDistrictIsFound ==
  Located =>
    \A p \in InsideOf :
      \A i \in DOMAIN Rows :
        SameDistrict(DIST_SHAPES[p].dname, _norm(Rows[i].district))
          => rid_of(Rows[i]) \in Range(RepIds)

\* the ids the base probes can reach, and those the floterial probes can reach
BaseReach ==
  UNION {Range(dict_get(REPS_BY_DIST, k, <<>>)) :
           k \in candidate_key_set(call.base_code) \cup Range(candidate_key_tail(call.base_code))}
FlotReach ==
  UNION {Range(dict_get(REPS_BY_DIST, k, <<>>)) :
           k \in UNION {flot_key_set(f) : f \in call.flots}}

\* C7: every id probed appears exactly once in the result, ids ordered by
\* their first match in the sequence of probes; a representative reachable by
\* a base key and by a floterial key precedes every representative reachable
\* by floterial keys only.
C7_DedupKeepsFirstOccurrenceOrder ==
  Located =>
    /\ Range(RepIds) = Range(call.rep_ids)
    /\ \A i, j \in DOMAIN RepIds :
         i < j => /\ RepIds[i] # RepIds[j]
                  /\ FirstIndex(call.rep_ids, RepIds[i]) < FirstIndex(call.rep_ids, RepIds[j])
    /\ \A x \in BaseReach \cap FlotReach :
         \A y \in FlotReach \ BaseReach :
           FirstIndex(RepIds, x) < FirstIndex(RepIds, y)

C7_Witness ==
  /\ Located
  /\ BaseReach \cap FlotReach # {}
  /\ FlotReach \ BaseReach # {}
  /\ Len(call.rep_ids) > Len(call.reps)
  /\ \E i, j \in DOMAIN call.rep_ids :
       i + 1 < j /\ call.rep_ids[i] = call.rep_ids[j] /\ call.rep_ids[i + 1] # call.rep_ids[i]

Yea == <<"Y","e","a">>
Nay == <<"N","a","y">>
VoteOf(row, issue) == REP_INFO[rid_of(row)].votes[issue.slug]

\* C8: the stored stance is no_vote exactly when the token classifies as NV;
\* otherwise support when (classification = Y) equals the issue's support
\* polarity and oppose when not.  With support_when = N, "Yea" is oppose and
\* "Nay" is support.
C8_StanceFollowsPolarity ==
  loaded =>
    \A r \in DOMAIN Rows : \A i \in DOMAIN ISSUES :
      LET v   == VoteOf(Rows[r], ISSUES[i])
          raw == row_get(Rows[r], ISSUES[i].csv_header)
      IN /\ (v.stance = "no_vote") <=> (v.vote = "NV")
         /\ v.vote # "NV" =>
              v.stance = IF (v.vote = "Y") <=> (ISSUES[i].support_when = "Y")
                         THEN "support" ELSE "oppose"
         /\ (ISSUES[i].support_when = "N" /\ raw = Yea) => v.stance = "oppose"
         /\ (ISSUES[i].support_when = "N" /\ raw = Nay) => v.stance = "support"

C8_Witness ==
  /\ loaded
  /\ \E r \in DOMAIN Rows : \E i \in DOMAIN ISSUES :
       /\ ISSUES[i].support_when = "N"
       /\ row_get(Rows[r], ISSUES[i].csv_header) = Yea
       /\ VoteOf(Rows[r], ISSUES[i]).stance = "oppose"

\* what the classifier is to answer for a cell: blank and missing cells are
\* NV, words are compared in upper case without the surrounding blanks
ExpectedClass(cell) ==
  IF cell \in {None, NaN} THEN "NV"
  ELSE IF upper(strip(cell)) \in AffirmativeWords THEN "Y"
  ELSE IF upper(strip(cell)) \in NegativeWords THEN "N"
  ELSE "NV"

\* C9: the classifier answers Y for the affirmative tokens, N for the
\* negative ones and NV for every other cell, in any letter case and with
\* surrounding blanks; it answers one of the three for every cell.
C9_ClassifierIsTotalAndThreeValued ==
  loaded =>
    \A r \in DOMAIN Rows : \A i \in DOMAIN ISSUES :
      /\ VoteOf(Rows[r], ISSUES[i]).vote \in {"Y", "N", "NV"}
      /\ VoteOf(Rows[r], ISSUES[i]).vote
           = ExpectedClass(row_get(Rows[r], ISSUES[i].csv_header))

C9_Witness ==
  /\ loaded
  /\ \E r \in DOMAIN Rows : \E i \in DOMAIN ISSUES :
       /\ row_get(Rows[r], ISSUES[i].csv_header) = <<" ","y","e","s"," "," ">>
       /\ VoteOf(Rows[r], ISSUES[i]).vote = "Y"

\* the labels a resolved base label is looked up under: its name, its code,
\* its 3-letter code, and the variants of each
NormalizedBaseLabels(base_code) ==
  LET nm == code_to_district_name(base_code)
      c3 == three_letter_from_name_or_code(nm, base_code)
  IN UNION {IF truthy(s) THEN {s} \cup variant_keys(<<s>>) ELSE {} : s \in {nm, base_code, c3}}
FileFlotsOfTown(town) ==
  {_norm(data.flot_town_csv[i].floterial) :
     i \in {j \in DOMAIN data.flot_town_csv : upper(_norm(data.flot_town_csv[j].src)) = town}}
    \ {<<>>}

\* C10: the floterial set of a lookup is the union of the base-table entries
\* of the resolved base label after normalisation and of the town-table
\* entries of the town when the town is non-empty; empty when neither matches.
C10_FlotsAreUnionOfBaseAndTown ==
  Located =>
    call.flots =
      UNION {FileFlotsOfBase(b) : b \in NormalizedBaseLabels(call.base_code) \ {<<>>}}
        \cup (IF call.town # <<>> THEN FileFlotsOfTown(call.town) ELSE {})

C10_Witness ==
  /\ Located
  /\ UNION {FileFlotsOfBase(b) : b \in NormalizedBaseLabels(call.base_code) \ {<<>>}} # {}
  /\ call.town # <<>>
  /\ FileFlotsOfTown(call.town) # {}
  /\ FileFlotsOfTown(call.town)
       # UNION {FileFlotsOfBase(b) : b \in NormalizedBaseLabels(call.base_code) \ {<<>>}}

\* C11: a lookup is a pure read of the loaded snapshot: once loaded, no step
\* (a lookup with or without the issues filter, by point or by address, or
\* the return of a response) changes the polygon list, the two floterial
\* tables, the roster index, the representative records or the issue list.
C11_LookupsLeaveSnapshotUnchanged ==
  [][loaded => UNCHANGED <<DIST_SHAPES, BASE_TO_FLOTS, TOWN_TO_FLOTS,
                           REPS_BY_DIST, REP_INFO, ISSUES>>]_vars

\* a filtered lookup has answered with fewer issues and fewer votes than the
\* snapshot holds, and the snapshot is what the loaders produced
C11_Witness ==
  /\ Located
  /\ Len(call.issues) < Len(ISSUES)
  /\ \E i \in DOMAIN call.reps :
       DOMAIN call.reps[i].votes # DOMAIN REP_INFO[call.reps[i].id].votes
  /\ BASE_TO_FLOTS # <<>> /\ TOWN_TO_FLOTS # <<>> /\ REPS_BY_DIST # <<>>
  /\ DIST_SHAPES = build_dist_shapes(data.geojson)
  /\ ISSUES = load_votes(data.votes_csv, data.issues_csv).issues
  /\ REP_INFO = load_votes(data.votes_csv, data.issues_csv).rep_info

\* the labels a and b name the same district of one county, a by the 2-letter
\* code and b by the 3-letter code, up to leading zeros of the number
SameUpToZeros(a, b) ==
  \E c2 \in DOMAIN COUNTY_ABBR_2, n \in 1..MaxNum, za, zb \in 0..MaxZeros :
    a = PaddedLabel("code2", c2, n, za) /\ b = PaddedLabel("code3", c2, n, zb)

\* C12: leading zeros of the district number do not matter: a lookup inside a
\* polygon labelled 'GR05' or 'GR5' returns the roster representative whose
\* district is 'GRA 5' or 'GRA 05'.
C12_LeadingZerosDoNotMatter ==
  Located =>
    \A p \in InsideOf :
      \A i \in DOMAIN Rows :
        SameUpToZeros(DIST_SHAPES[p].dname, _norm(Rows[i].district))
          => rid_of(Rows[i]) \in Range(RepIds)

\* C13: after loading, every id stored under any key of the roster index is
\* a key of rep_info, whatever the roster (duplicate ids, blank districts);
\* hence resolving the de-duplicated ids of a located point to records never
\* fails: the lookup answers 200, never an internal error.
C13_IndexedIdsHaveRecords ==
  loaded =>
    /\ \A k \in DOMAIN REPS_BY_DIST :
         \A i \in DOMAIN REPS_BY_DIST[k] : REPS_BY_DIST[k][i] \in DOMAIN REP_INFO
    /\ call.status # 500
    /\ call.status = 200 => \A i \in DOMAIN call.rep_ids : call.rep_ids[i] \in DOMAIN REP_INFO

\* a roster with two rows of one id, one of them with a blank district, and
\* a lookup that probed the index and resolved the id
C13_Witness ==
  /\ Located
  /\ call.reps # <<>>
  /\ \E i, j \in DOMAIN Rows :
       /\ i # j
       /\ rid_of(Rows[i]) = rid_of(Rows[j])
       /\ _norm(Rows[j].district) = <<>>
       /\ rid_of(Rows[i]) \in Range(RepIds)

====
